---- MODULE Spec2Model ----
(***************************************************************************)
(* Sliding-window rate limiter engine (RateLimiterService): the per-client *)
(* request-history store, the admission decision, the remaining / resetAt  *)
(* / retryAfter computation, the resets, the staleness sweep and destroy.  *)
(*                                                                         *)
(* Time is the value of Date.now() in milliseconds.  The clock is modelled *)
(* as non-decreasing.  The setInterval callback may fire at any instant    *)
(* while the timer is armed (its 5-minute period is not modelled: the      *)
(* sweep is allowed at more instants than the timer produces).             *)
(* options.message is a string no operation of the engine reads; it is     *)
(* left out of the state.                                                  *)
(***************************************************************************)
EXTENDS Integers, Sequences, FiniteSets, TLC

\* ---------------------------------------------------------------- bounds
\* largest value of Date.now() explored
MaxTime == 4
\* largest number of checkLimit calls logged since the logs were last cleared
MaxCalls == 3
\* largest options.maxRequests / options.windowMs the constructor is given
MaxRequestsBound == 2
MaxWindowBound == 2

\* client identifiers handed to the engine: any string is a Map key, the empty
\* string included
ClientIds == {"a", ""}

\* Math.ceil((...) / 1000): milliseconds per second
MsPerSecond == 1000

VARIABLES
    clients,          \* Map<string, ClientRecord>: a function on the keys present
    options,          \* [maxRequests, windowMs]
    cleanupInterval,  \* TRUE while the setInterval handle is held, FALSE for null
    now,              \* Date.now()
    result,           \* the operation run at the current instant and what it returned
    trace,            \* per client: the checkLimit results since its last reset
    middleware,       \* the options captured by the createRateLimiter closure
    exchange,         \* what the latest request through the middleware ended in
    limiters,         \* RateLimiterFactory: Map<string, {service, middleware}>
    services,         \* every instance serviceFactory() produced: is its sweep timer armed
    returned,         \* the latest factory operation and the value it returned
    limiterStore,     \* RateLimiter.store: Map<string, RateLimitRecord>
    limiter,          \* RateLimiter: [windowMs, maxRequests]
    allowedLog,       \* per identifier: the times of the isAllowed calls that returned true
    answer            \* the latest RateLimiter operation and the value it returned

vars == <<clients, options, cleanupInterval, now, result, trace, middleware, exchange,
          limiters, services, returned, limiterStore, limiter, allowedLog, answer>>

\* the part of the state that belongs to the Express middleware
mwVars == <<middleware, exchange>>

\* the part of the state that belongs to the RateLimiterFactory
factoryVars == <<limiters, services, returned>>

\* the part of the state that belongs to the counter-based RateLimiter
limiterVars == <<limiterStore, limiter, allowedLog, answer>>

\* the largest number of isAllowed calls that are logged as allowed
MaxAllowed == 4

\* the largest number of services a factory is asked to create
MaxServices == 3

\* the names limiters are created under
Names == {"api", "auth"}

\* ------------------------------------------------------- pure helpers
Max(x, y) == IF x >= y THEN x ELSE y

\* Math.ceil(a / b) for b > 0 (\div rounds towards minus infinity)
Ceil(a, b) == 0 - ((0 - a) \div b)

\* the configurations the constructor accepts: it stores the two numbers as given
Configs == [maxRequests : (0 - 1)..MaxRequestsBound, windowMs : (0 - 1)..MaxWindowBound]

\* a window start taken with the staleness factor of the sweep
WindowStartDoubled(t) == t - (options.windowMs * 2)

\* const windowStart = now - this.options.windowMs
WindowStart(t) == t - options.windowMs

\* a filter that still counts the timestamp lying exactly on the window start
TrimInclusive(requests, windowStart) == SelectSeq(requests, LAMBDA timestamp : timestamp >= windowStart)

\* requests.filter(timestamp => timestamp > windowStart)
Trim(requests, windowStart) == SelectSeq(requests, LAMBDA timestamp : timestamp > windowStart)

\* this.clients.get(clientId), or the fresh record that is created and stored
GetOrCreate(store, clientId, t) ==
    IF clientId \in DOMAIN store THEN store[clientId]
    ELSE [requests |-> <<>>, lastAccessed |-> t]

\* Math.max(0, this.options.maxRequests - requestCount)
Remaining(requestCount) == Max(0, options.maxRequests - requestCount)

\* an admission test that lets one request too many through
AllowedOffByOne(requestCount) == requestCount <= options.maxRequests

\* requestCount < this.options.maxRequests
Allowed(requestCount) == requestCount < options.maxRequests

\* an anchor taken on the newest request of the array
NewestRequest(requests, t) ==
    IF Len(requests) > 0 THEN requests[Len(requests)] ELSE t

\* requests[0] || now : undefined (empty array) and 0 are both falsy
OldestRequest(requests, t) ==
    IF Len(requests) > 0 /\ requests[1] # 0 THEN requests[1] ELSE t

\* the shape of a returned value; fields an operation does not return keep
\* their defaults, retryAfter is <<>> for undefined and <<n>> for n;
\* timerCleared tells whether a destroy() call ran clearInterval
Return(op, clientId, t, allowed, requestCount, remaining, resetAt, retryAfter) ==
    [op |-> op, clientId |-> clientId, at |-> t, allowed |-> allowed,
     requestCount |-> requestCount, remaining |-> remaining,
     resetAt |-> resetAt, retryAfter |-> retryAfter, timerCleared |-> FALSE]

Void(op, clientId, t) == Return(op, clientId, t, FALSE, 0, 0, 0, <<>>)

\* a returned remaining that does not count the request being admitted
ReturnedRemainingUncounted(allowed, remaining) == IF allowed THEN remaining ELSE 0

\* remaining: allowed ? remaining - 1 : 0
ReturnedRemaining(allowed, remaining) == IF allowed THEN remaining - 1 ELSE 0

\* a checkLimit that records the request even when it rejects it
CheckLimitRequestsAlwaysAppend(store, clientId, t) ==
    Append(Trim(GetOrCreate(store, clientId, t).requests, WindowStart(t)), t)

\* the requests array of the client's record when checkLimit returns
CheckLimitRequests(store, clientId, t) ==
    LET trimmed == Trim(GetOrCreate(store, clientId, t).requests, WindowStart(t))
    IN  IF Allowed(Len(trimmed)) THEN Append(trimmed, t) ELSE trimmed

\* a checkLimit that replaces the map by one holding the caller's record only
CheckLimitStoreSingle(store, clientId, t) ==
    [k \in {clientId} |->
        [requests |-> CheckLimitRequests(store, clientId, t), lastAccessed |-> t]]

\* a checkLimit that leaves lastAccessed at the time the record was created
CheckLimitStoreStaleAccess(store, clientId, t) ==
    [k \in DOMAIN store \cup {clientId} |->
        IF k = clientId
        THEN [requests |-> CheckLimitRequests(store, clientId, t),
              lastAccessed |-> GetOrCreate(store, clientId, t).lastAccessed]
        ELSE store[k]]

\* the store when checkLimit returns
CheckLimitStore(store, clientId, t) ==
    [k \in DOMAIN store \cup {clientId} |->
        IF k = clientId
        THEN [requests |-> CheckLimitRequests(store, clientId, t), lastAccessed |-> t]
        ELSE store[k]]

\* the value checkLimit returns
CheckLimitReturn(store, clientId, t) ==
    LET trimmed      == Trim(GetOrCreate(store, clientId, t).requests, WindowStart(t))
        requestCount == Len(trimmed)
        remaining    == Remaining(requestCount)
        allowed      == Allowed(requestCount)
        oldest       == OldestRequest(CheckLimitRequests(store, clientId, t), t)
        resetAt      == oldest + options.windowMs
        retryAfter   == IF ~allowed THEN <<Ceil(resetAt - t, MsPerSecond)>> ELSE <<>>
    IN  Return("checkLimit", clientId, t, allowed, 0,
               ReturnedRemaining(allowed, remaining), resetAt, retryAfter)

\* a status query that creates an empty record for a key that has none
GetStatusStoreCreates(store, clientId, t) ==
    [k \in DOMAIN store \cup {clientId} |-> GetOrCreate(store, k, t)]

\* a status query that stores the trimmed history and the access time
GetStatusStoreTouches(store, clientId, t) ==
    [k \in DOMAIN store |->
        IF k = clientId
        THEN [requests |-> Trim(store[k].requests, WindowStart(t)), lastAccessed |-> t]
        ELSE store[k]]

\* a status query that is charged like an admission check
GetStatusStoreConsumes(store, clientId, t) == CheckLimitStore(store, clientId, t)

\* the store when getStatus returns: it writes nothing
GetStatusStore(store, clientId, t) == store

\* the value getStatus returns
GetStatusReturn(store, clientId, t) ==
    IF clientId \notin DOMAIN store
    THEN Return("getStatus", clientId, t, FALSE, 0, options.maxRequests,
                t + options.windowMs, <<>>)
    ELSE LET validRequests == Trim(store[clientId].requests, WindowStart(t))
             requestCount  == Len(validRequests)
         IN  Return("getStatus", clientId, t, FALSE, requestCount,
                    Remaining(requestCount),
                    OldestRequest(validRequests, t) + options.windowMs, <<>>)

\* a per-client reset that clears the whole map
ResetClientStoreAll(store, clientId) == <<>>

\* this.clients.delete(clientId)
ResetClientStore(store, clientId) == [k \in DOMAIN store \ {clientId} |-> store[k]]

\* a destroy that leaves the timer as it finds it
DestroyIntervalLeak(interval) == interval

\* if (this.cleanupInterval) { clearInterval(...); this.cleanupInterval = null }
DestroyInterval(interval) == IF interval THEN FALSE ELSE interval

\* a destroy that clears the map only together with the timer
DestroyStoreGuarded(store, interval) == IF interval THEN <<>> ELSE store

\* this.clients.clear() at the end of destroy
DestroyStore(store, interval) == <<>>

\* a staleness threshold of one window instead of two
StaleSingleWindow(store, t) ==
    {k \in DOMAIN store : store[k].lastAccessed < t - options.windowMs}

\* a staleness test that takes every record not touched at this very instant
StaleAnyIdle(store, t) ==
    {k \in DOMAIN store : store[k].lastAccessed < t}

\* the keys cleanupStaleRecords deletes at time t
Stale(store, t) ==
    {k \in DOMAIN store : store[k].lastAccessed < t - (options.windowMs * 2)}

\* the store when cleanupStaleRecords returns
SweepStore(store, t) == [k \in DOMAIN store \ Stale(store, t) |-> store[k]]

\* const statusCode = options.statusCode || 429
DefaultStatusCode == 429

\* a statusCode given in the options
CustomStatusCode == 503

\* RateLimiterMiddlewareOptions as far as the handler reads them: which
\* keyGenerator, whether onLimitReached is given, includeHeaders, and
\* statusCode with 0 for a missing one (undefined and 0 are both falsy)
MiddlewareOptions ==
    [keyGenerator : {"default", "custom"}, onLimitReached : BOOLEAN,
     includeHeaders : BOOLEAN, statusCode : {0, CustomStatusCode}]

\* createRateLimiter(service, {maxRequests, windowMs})
DefaultMiddleware ==
    [keyGenerator |-> "default", onLimitReached |-> FALSE,
     includeHeaders |-> TRUE, statusCode |-> 0]

StatusCode(mw) == IF mw.statusCode # 0 THEN mw.statusCode ELSE DefaultStatusCode

\* a request, with what the caller's callbacks do when they are called on it:
\* the key extracted from it, whether keyGenerator returns or throws, whether
\* onLimitReached sends a response, returns without one, or throws
Requests ==
    [key : ClientIds, keyGenerator : {"returns", "throws"},
     onLimitReached : {"responds", "silent", "throws"}]

\* res and next before the handler has touched them
NoExchange ==
    [checked |-> FALSE, threw |-> "none", headers |-> {},
     handlerCalls |-> 0, sent |-> "none", status |-> 0, retryAfter |-> <<>>,
     next |-> 0, nextError |-> 0]

\* the headers set on the response for a checkLimit result r
RateLimitHeaders(mw, r) ==
    IF mw.includeHeaders
    THEN {"X-RateLimit-Limit", "X-RateLimit-Remaining", "X-RateLimit-Reset"}
         \cup (IF ~r.allowed /\ r.retryAfter # <<>> /\ r.retryAfter[1] # 0
               THEN {"Retry-After"} ELSE {})
    ELSE {}

\* a handler that falls through to next() after a rejection
NextCallsFallThrough(r) == 1

\* next() is reached only when the rejection branch has not returned
NextCalls(r) == IF r.allowed THEN 1 ELSE 0

\* a handler that charges the request although the key extraction failed
MiddlewareStoreCharged(store, req, t) == CheckLimitStore(store, req.key, t)

\* the store when the handler returns: checkLimit runs only if keyGenerator returned
MiddlewareStore(store, req, t) ==
    IF req.keyGenerator = "throws" THEN store ELSE CheckLimitStore(store, req.key, t)

\* what the handler does to res and next, r being the checkLimit result
MiddlewareExchange(mw, req, r) ==
    IF req.keyGenerator = "throws"
    THEN [NoExchange EXCEPT !.threw = "keyGenerator", !.nextError = 1]
    ELSE LET base == [NoExchange EXCEPT !.checked = TRUE,
                                        !.headers = RateLimitHeaders(mw, r),
                                        !.next = NextCalls(r)]
         IN  IF r.allowed THEN base
             ELSE IF mw.onLimitReached
             THEN CASE req.onLimitReached = "responds" ->
                          [base EXCEPT !.handlerCalls = 1, !.sent = "handler"]
                    [] req.onLimitReached = "silent" ->
                          [base EXCEPT !.handlerCalls = 1]
                    [] req.onLimitReached = "throws" ->
                          [base EXCEPT !.handlerCalls = 1, !.threw = "onLimitReached",
                                       !.nextError = 1]
             ELSE [base EXCEPT !.sent = "middleware", !.status = StatusCode(mw),
                               !.retryAfter = r.retryAfter]

\* a factory operation, its argument and its return value: the index of the
\* service (or of the middleware bound to it), 0 for undefined and for void
FactoryReturn(op, name, value) == [op |-> op, name |-> name, value |-> value]

NoReturn == FactoryReturn("none", "", 0)

\* this.limiters.set(name, { service, middleware }): the newest service, and
\* the middleware closed over it, replace what the name held
CreateLimiters(map, name, service) ==
    [k \in DOMAIN map \cup {name} |->
        IF k = name THEN [service |-> service, middleware |-> service] ELSE map[k]]

\* for (const { service } of this.limiters.values()) service.destroy():
\* the timers after the loop
FactoryDestroyServices(map, instances) ==
    [i \in DOMAIN instances |->
        IF \E k \in DOMAIN map : map[k].service = i
        THEN DestroyInterval(instances[i])
        ELSE instances[i]]

\* constructor(options = { windowMs: 60000, maxRequests: 100 })
DefaultLimiter == [windowMs |-> 60000, maxRequests |-> 100]

\* the limiters examined: the constructor stores the two numbers as given,
\* these are the well-formed ones up to the bounds
LimiterConfigs == [windowMs : 1..MaxWindowBound, maxRequests : 1..MaxRequestsBound]

\* a RateLimiter operation, its argument and its return value (a boolean
\* for isAllowed, a number for getRemaining and getResetTime)
Answer(op, identifier, allowed, value) ==
    [op |-> op, identifier |-> identifier, allowed |-> allowed, value |-> value]

NoAnswer == Answer("none", "", FALSE, 0)

\* !record || now >= record.resetAt
WindowOver(records, identifier, t) ==
    identifier \notin DOMAIN records \/ t >= records[identifier].resetAt

\* what isAllowed returns
IsAllowedReturn(records, identifier, t) ==
    \/ WindowOver(records, identifier, t)
    \/ records[identifier].count < limiter.maxRequests

\* the store when isAllowed returns: resetLimit opens a new window with
\* count 1, an allowed request inside the window is counted, a rejected one
\* changes nothing
IsAllowedStore(records, identifier, t) ==
    IF WindowOver(records, identifier, t)
    THEN [k \in DOMAIN records \cup {identifier} |->
             IF k = identifier THEN [count |-> 1, resetAt |-> t + limiter.windowMs]
             ELSE records[k]]
    ELSE IF records[identifier].count < limiter.maxRequests
    THEN [records EXCEPT ![identifier].count = @ + 1]
    ELSE records

\* what getRemaining returns
GetRemaining(records, identifier, t) ==
    IF WindowOver(records, identifier, t) THEN limiter.maxRequests
    ELSE Max(0, limiter.maxRequests - records[identifier].count)

\* what getResetTime returns
GetResetTime(records, identifier, t) ==
    IF identifier \notin DOMAIN records THEN 0
    ELSE Max(0, records[identifier].resetAt - t)

\* number of isAllowed calls currently logged as allowed
LoggedAllowed == LET RECURSIVE Sum(_)
                     Sum(S) == IF S = {} THEN 0
                               ELSE LET c == CHOOSE x \in S : TRUE
                                    IN  Len(allowedLog[c]) + Sum(S \ {c})
                 IN  Sum(ClientIds)

\* number of checkLimit results currently logged
Logged == LET RECURSIVE Sum(_)
              Sum(S) == IF S = {} THEN 0
                        ELSE LET c == CHOOSE x \in S : TRUE
                             IN  Len(trace[c]) + Sum(S \ {c})
          IN  Sum(ClientIds)

\* ------------------------------------------------------------ the machine
\* new RateLimiterService(options): the constructor validates nothing, so
\* every pair of numbers is a configuration; Date.now() is positive
Init ==
    /\ clients = <<>>
    /\ options \in Configs
    /\ cleanupInterval = TRUE
    /\ now = 1
    /\ result = Void("constructor", "", 1)
    /\ trace = [c \in ClientIds |-> <<>>]
    /\ middleware = DefaultMiddleware
    /\ exchange = NoExchange
    /\ limiters = <<>>
    /\ services = <<>>
    /\ returned = NoReturn
    /\ limiterStore = <<>>
    /\ limiter = DefaultLimiter
    /\ allowedLog = [identifier \in ClientIds |-> <<>>]
    /\ answer = NoAnswer

\* the wall clock advances
Tick ==
    /\ now < MaxTime
    /\ now' = now + 1
    /\ result' = Void("none", "", now + 1)
    /\ UNCHANGED <<clients, options, cleanupInterval, trace>>
    /\ UNCHANGED mwVars
    /\ UNCHANGED factoryVars
    /\ UNCHANGED limiterVars

checkLimit(clientId) ==
    /\ Logged < MaxCalls
    /\ clients' = CheckLimitStore(clients, clientId, now)
    /\ result' = CheckLimitReturn(clients, clientId, now)
    /\ trace' = [trace EXCEPT ![clientId] = Append(@, CheckLimitReturn(clients, clientId, now))]
    /\ UNCHANGED <<options, cleanupInterval, now>>
    /\ UNCHANGED mwVars
    /\ UNCHANGED factoryVars
    /\ UNCHANGED limiterVars

\* a status query that dereferences the record without the has() test and
\* so throws for a key that has none
getStatusKnownOnly(clientId) ==
    /\ clientId \in DOMAIN clients
    /\ clients' = GetStatusStore(clients, clientId, now)
    /\ result' = GetStatusReturn(clients, clientId, now)
    /\ UNCHANGED <<options, cleanupInterval, now, trace>>
    /\ UNCHANGED mwVars
    /\ UNCHANGED factoryVars
    /\ UNCHANGED limiterVars

getStatus(clientId) ==
    /\ clients' = GetStatusStore(clients, clientId, now)
    /\ result' = GetStatusReturn(clients, clientId, now)
    /\ UNCHANGED <<options, cleanupInterval, now, trace>>
    /\ UNCHANGED mwVars
    /\ UNCHANGED factoryVars
    /\ UNCHANGED limiterVars

resetClient(clientId) ==
    /\ clients' = ResetClientStore(clients, clientId)
    /\ result' = Void("resetClient", clientId, now)
    /\ trace' = [trace EXCEPT ![clientId] = <<>>]
    /\ UNCHANGED <<options, cleanupInterval, now>>
    /\ UNCHANGED mwVars
    /\ UNCHANGED factoryVars
    /\ UNCHANGED limiterVars

resetAll ==
    /\ clients' = <<>>
    /\ result' = Void("resetAll", "", now)
    /\ trace' = [c \in ClientIds |-> <<>>]
    /\ UNCHANGED <<options, cleanupInterval, now>>
    /\ UNCHANGED mwVars
    /\ UNCHANGED factoryVars
    /\ UNCHANGED limiterVars

\* a callback that keeps firing after clearInterval
cleanupStaleRecordsUnguarded ==
    /\ clients' = SweepStore(clients, now)
    /\ result' = Void("cleanupStaleRecords", "", now)
    /\ UNCHANGED <<options, cleanupInterval, now, trace>>
    /\ UNCHANGED mwVars
    /\ UNCHANGED factoryVars
    /\ UNCHANGED limiterVars

\* the setInterval callback
cleanupStaleRecords ==
    /\ cleanupInterval
    /\ clients' = SweepStore(clients, now)
    /\ result' = Void("cleanupStaleRecords", "", now)
    /\ UNCHANGED <<options, cleanupInterval, now, trace>>
    /\ UNCHANGED mwVars
    /\ UNCHANGED factoryVars
    /\ UNCHANGED limiterVars

destroy ==
    /\ cleanupInterval' = DestroyInterval(cleanupInterval)
    /\ clients' = DestroyStore(clients, cleanupInterval)
    /\ result' = [Void("destroy", "", now) EXCEPT !.timerCleared = cleanupInterval]
    /\ trace' = [c \in ClientIds |-> <<>>]
    /\ UNCHANGED <<options, now>>
    /\ UNCHANGED mwVars
    /\ UNCHANGED factoryVars
    /\ UNCHANGED limiterVars

Next ==
    \/ Tick
    \/ \E clientId \in ClientIds : checkLimit(clientId)
    \/ \E clientId \in ClientIds : getStatus(clientId)
    \/ \E clientId \in ClientIds : resetClient(clientId)
    \/ resetAll
    \/ cleanupStaleRecords
    \/ destroy

Spec == Init /\ [][Next]_vars

\* ---------------------------------------------- the Express middleware
\* the engines put behind the middleware: one that the constructor should
\* have refused and that rejects every request, one that admits a single
\* request per window, each with an empty and with a one-millisecond window
MiddlewareConfigs == {c \in Configs : c.maxRequests \in {0, 1} /\ c.windowMs \in {0, 1}}

\* createRateLimiter(new RateLimiterService(options), mwOptions)
InitMiddleware ==
    /\ clients = <<>>
    /\ options \in MiddlewareConfigs
    /\ cleanupInterval = TRUE
    /\ now = 1
    /\ result = Void("constructor", "", 1)
    /\ trace = [c \in ClientIds |-> <<>>]
    /\ middleware \in MiddlewareOptions
    /\ exchange = NoExchange
    /\ limiters = <<>>
    /\ services = <<>>
    /\ returned = NoReturn
    /\ limiterStore = <<>>
    /\ limiter = DefaultLimiter
    /\ allowedLog = [identifier \in ClientIds |-> <<>>]
    /\ answer = NoAnswer

\* one request through the returned handler; only a custom keyGenerator throws
rateLimitMiddleware(req) ==
    /\ req.keyGenerator = "throws" => middleware.keyGenerator = "custom"
    /\ req.keyGenerator = "returns" => Logged < MaxCalls
    /\ clients' = MiddlewareStore(clients, req, now)
    /\ result' = IF req.keyGenerator = "throws"
                 THEN Void("rateLimitMiddleware", "", now)
                 ELSE CheckLimitReturn(clients, req.key, now)
    /\ trace' = IF req.keyGenerator = "throws" THEN trace
                ELSE [trace EXCEPT ![req.key] =
                         Append(@, CheckLimitReturn(clients, req.key, now))]
    /\ exchange' = MiddlewareExchange(middleware, req, CheckLimitReturn(clients, req.key, now))
    /\ UNCHANGED <<options, cleanupInterval, now, middleware>>
    /\ UNCHANGED factoryVars
    /\ UNCHANGED limiterVars

NextMiddleware ==
    \/ Tick
    \/ \E req \in Requests : rateLimitMiddleware(req)
    \/ cleanupStaleRecords

SpecMiddleware == InitMiddleware /\ [][NextMiddleware]_vars

\* ------------------------------------------------ the RateLimiterFactory
\* new RateLimiterFactory(); the engine of the first sections stands idle
InitFactory ==
    /\ Init
    /\ options.maxRequests = 1
    /\ options.windowMs = 1

\* create(name, serviceFactory, options): serviceFactory() constructs a new
\* service, whose constructor arms its sweep timer
create(name) ==
    /\ Len(services) < MaxServices
    /\ services' = Append(services, TRUE)
    /\ limiters' = CreateLimiters(limiters, name, Len(services) + 1)
    /\ returned' = FactoryReturn("create", name, Len(services) + 1)
    /\ UNCHANGED <<clients, options, cleanupInterval, now, result, trace>>
    /\ UNCHANGED mwVars
    /\ UNCHANGED limiterVars

\* get(name): this.limiters.get(name)?.middleware
get(name) ==
    /\ returned' = FactoryReturn("get", name,
                        IF name \in DOMAIN limiters THEN limiters[name].middleware ELSE 0)
    /\ UNCHANGED <<clients, options, cleanupInterval, now, result, trace>>
    /\ UNCHANGED mwVars
    /\ UNCHANGED <<limiters, services>>
    /\ UNCHANGED limiterVars

\* getService(name): this.limiters.get(name)?.service
getService(name) ==
    /\ returned' = FactoryReturn("getService", name,
                        IF name \in DOMAIN limiters THEN limiters[name].service ELSE 0)
    /\ UNCHANGED <<clients, options, cleanupInterval, now, result, trace>>
    /\ UNCHANGED mwVars
    /\ UNCHANGED <<limiters, services>>
    /\ UNCHANGED limiterVars

\* RateLimiterFactory.destroy()
factoryDestroy ==
    /\ services' = FactoryDestroyServices(limiters, services)
    /\ limiters' = <<>>
    /\ returned' = FactoryReturn("destroy", "", 0)
    /\ UNCHANGED <<clients, options, cleanupInterval, now, result, trace>>
    /\ UNCHANGED mwVars
    /\ UNCHANGED limiterVars

NextFactory ==
    \/ \E name \in Names : create(name)
    \/ \E name \in Names : get(name)
    \/ \E name \in Names : getService(name)
    \/ factoryDestroy

SpecFactory == InitFactory /\ [][NextFactory]_vars

\* ------------------------------------------ the counter-based RateLimiter
\* new RateLimiter(options); the engine of the first sections stands idle
InitRateLimiter ==
    /\ clients = <<>>
    /\ options = [maxRequests |-> 1, windowMs |-> 1]
    /\ cleanupInterval = TRUE
    /\ now = 1
    /\ result = Void("constructor", "", 1)
    /\ trace = [c \in ClientIds |-> <<>>]
    /\ middleware = DefaultMiddleware
    /\ exchange = NoExchange
    /\ limiters = <<>>
    /\ services = <<>>
    /\ returned = NoReturn
    /\ limiterStore = <<>>
    /\ limiter \in LimiterConfigs
    /\ allowedLog = [identifier \in ClientIds |-> <<>>]
    /\ answer = NoAnswer

isAllowed(identifier) ==
    /\ LoggedAllowed < MaxAllowed
    /\ limiterStore' = IsAllowedStore(limiterStore, identifier, now)
    /\ answer' = Answer("isAllowed", identifier,
                        IsAllowedReturn(limiterStore, identifier, now), 0)
    /\ allowedLog' = IF IsAllowedReturn(limiterStore, identifier, now)
                     THEN [allowedLog EXCEPT ![identifier] = Append(@, now)]
                     ELSE allowedLog
    /\ UNCHANGED <<clients, options, cleanupInterval, now, result, trace, limiter>>
    /\ UNCHANGED mwVars
    /\ UNCHANGED factoryVars

getRemaining(identifier) ==
    /\ answer' = Answer("getRemaining", identifier, FALSE,
                        GetRemaining(limiterStore, identifier, now))
    /\ UNCHANGED <<clients, options, cleanupInterval, now, result, trace>>
    /\ UNCHANGED <<limiterStore, limiter, allowedLog>>
    /\ UNCHANGED mwVars
    /\ UNCHANGED factoryVars

getResetTime(identifier) ==
    /\ answer' = Answer("getResetTime", identifier, FALSE,
                        GetResetTime(limiterStore, identifier, now))
    /\ UNCHANGED <<clients, options, cleanupInterval, now, result, trace>>
    /\ UNCHANGED <<limiterStore, limiter, allowedLog>>
    /\ UNCHANGED mwVars
    /\ UNCHANGED factoryVars

\* clear(): this.store.clear()
clear ==
    /\ limiterStore' = <<>>
    /\ allowedLog' = [identifier \in ClientIds |-> <<>>]
    /\ answer' = Answer("clear", "", FALSE, 0)
    /\ UNCHANGED <<clients, options, cleanupInterval, now, result, trace, limiter>>
    /\ UNCHANGED mwVars
    /\ UNCHANGED factoryVars

NextRateLimiter ==
    \/ Tick
    \/ \E identifier \in ClientIds : isAllowed(identifier)
    \/ \E identifier \in ClientIds : getRemaining(identifier)
    \/ \E identifier \in ClientIds : getResetTime(identifier)
    \/ clear

SpecRateLimiter == InitRateLimiter /\ [][NextRateLimiter]_vars

\* the engine constructed with a well-formed configuration only
\* (maxRequests >= 1 and windowMs >= 1)
SpecValidConfig ==
    Init /\ options.maxRequests >= 1 /\ options.windowMs >= 1 /\ [][Next]_vars

\* ------------------------------------------------------------ properties
\* the configurations the specification calls well-formed
ValidConfig == options.maxRequests >= 1 /\ options.windowMs >= 1

\* the logged call i of client c was admitted
Admitted(c, i) == trace[c][i].allowed

\* C1: with maxRequests = N >= 1, in a run of checkLimit calls of an unseen
\* client that all fall within one window (the timestamp of the first call
\* has not expired, no reset in between), exactly the first N calls are
\* admitted and every later one is rejected with retryAfter present and > 0.
FirstNAdmitted ==
    \A c \in ClientIds :
        (/\ options.maxRequests >= 1
         /\ trace[c] # <<>>
         /\ trace[c][1].at > now - options.windowMs)
        => \A i \in 1..Len(trace[c]) :
              /\ Admitted(c, i) <=> i <= options.maxRequests
              /\ ~Admitted(c, i) =>
                    /\ Len(trace[c][i].retryAfter) = 1
                    /\ trace[c][i].retryAfter[1] > 0

\* a client with maxRequests = 2 made three calls inside one window, the
\* third of which was rejected
FirstNAdmittedWitness ==
    \E c \in ClientIds :
        /\ options.maxRequests = 2
        /\ options.windowMs >= 1
        /\ Len(trace[c]) = 3
        /\ trace[c][1].at > now - options.windowMs
        /\ Admitted(c, 2) /\ ~Admitted(c, 3)

\* the number of logged calls of c admitted at a time in (lo, hi]
AdmittedIn(c, lo, hi) ==
    Cardinality({i \in 1..Len(trace[c]) :
                    Admitted(c, i) /\ trace[c][i].at > lo /\ trace[c][i].at <= hi})

\* C2: sliding-window bound.  With no resetClient / resetAll / destroy since
\* the log of a client was started (sweeps may fire at any time), for every
\* client and every time t the number of calls admitted with a timestamp in
\* (t - windowMs, t] is at most maxRequests.
SlidingWindowBound ==
    \A c \in ClientIds, t \in 1..MaxTime :
        AdmittedIn(c, t - options.windowMs, t) <= options.maxRequests

\* C3: the engine never over-admits.  Every stored history holds at most
\* maxRequests timestamps; checkLimit stores the trimmed history, appends now
\* only when fewer than maxRequests in-window timestamps remain, and appends
\* nothing when it rejects.
NeverOverAdmits ==
    /\ [](\A c \in DOMAIN clients : Len(clients[c].requests) <= options.maxRequests)
    /\ [][\A c \in ClientIds :
            (result'.op = "checkLimit" /\ result'.clientId = c) =>
                LET inWindow == Trim(IF c \in DOMAIN clients THEN clients[c].requests
                                     ELSE <<>>, now - options.windowMs)
                    stored   == clients'[c].requests
                IN  /\ stored \in {inWindow, Append(inWindow, now)}
                    /\ stored = Append(inWindow, now) => Len(inWindow) < options.maxRequests
                    /\ ~result'.allowed => stored = inWindow]_vars

\* C4: every value returned by checkLimit and by getStatus has remaining in
\* [0, maxRequests] and resetAt >= the time of the call.
ResultRanges ==
    result.op \in {"checkLimit", "getStatus"} =>
        /\ result.remaining >= 0
        /\ result.remaining <= options.maxRequests
        /\ result.resetAt >= result.at

\* the latest call of c before call j that was admitted (0 when there is none)
PrevAdmitted(c, j) ==
    LET earlier == {i \in 1..(j - 1) : Admitted(c, i)}
    IN  IF earlier = {} THEN 0 ELSE CHOOSE i \in earlier : \A k \in earlier : k <= i

\* what the claims about remaining share: maxRequests - 1 on an admitted first
\* call of an unseen client, 0 on the admitted call that a rejection follows
\* and on every rejected call, never negative
RemainingEnds(c) ==
    \A j \in 1..Len(trace[c]) :
        /\ trace[c][j].remaining >= 0
        /\ (j = 1 /\ Admitted(c, j)) => trace[c][j].remaining = options.maxRequests - 1
        /\ ~Admitted(c, j) => trace[c][j].remaining = 0
        /\ (j > 1 /\ Admitted(c, j - 1) /\ ~Admitted(c, j)) => trace[c][j - 1].remaining = 0

\* C5 as stated: remaining decreases by 1 on each admitted call of a client,
\* whatever the time between the calls.
RemainingDecreases ==
    ValidConfig =>
        \A c \in ClientIds :
            /\ RemainingEnds(c)
            /\ \A j \in 1..Len(trace[c]) :
                  (Admitted(c, j) /\ PrevAdmitted(c, j) # 0) =>
                      trace[c][j].remaining = trace[c][PrevAdmitted(c, j)].remaining - 1

\* C5 (amended): remaining decreases by 1 from one admitted call to the next
\* admitted call of the client made before the oldest timestamp counted by
\* the former expires (time of the call < resetAt of the former); it is
\* maxRequests - 1 on an admitted first call of an unseen client, 0 on the
\* admitted call that exhausts the quota and on every rejected call, and
\* never negative.
RemainingDecreasesWithinWindow ==
    \A c \in ClientIds :
        /\ RemainingEnds(c)
        /\ \A j \in 2..Len(trace[c]) :
              (/\ Admitted(c, j - 1) /\ Admitted(c, j)
               /\ trace[c][j].at < trace[c][j - 1].resetAt) =>
                  trace[c][j].remaining = trace[c][j - 1].remaining - 1

\* a client with maxRequests = 2 was admitted twice inside one window, with
\* remaining 1 and then 0, and then rejected with remaining 0
RemainingDecreasesWitness ==
    \E c \in ClientIds :
        /\ options.maxRequests = 2
        /\ Len(trace[c]) = 3
        /\ Admitted(c, 1) /\ Admitted(c, 2) /\ ~Admitted(c, 3)
        /\ trace[c][2].at < trace[c][1].resetAt
        /\ trace[c][1].remaining = 1 /\ trace[c][2].remaining = 0
        /\ trace[c][3].remaining = 0

\* the times at which a call can still be made
Later == now..MaxTime

\* C6: getStatus does not consume quota.  A getStatus call, for any client,
\* leaves the store as it was, so that for every client and every time from
\* now on checkLimit returns the same value (allowed, remaining, resetAt,
\* retryAfter) and leaves the same store as without that call.
GetStatusConsumesNothing ==
    [][result'.op = "getStatus" =>
          \A c \in ClientIds, t \in Later :
              /\ CheckLimitReturn(clients', c, t) = CheckLimitReturn(clients, c, t)
              /\ CheckLimitStore(clients', c, t) = CheckLimitStore(clients, c, t)]_vars

\* getStatus was called for a client that has used up its quota
GetStatusConsumesNothingWitness ==
    /\ result.op = "getStatus"
    /\ ValidConfig
    /\ result.requestCount = options.maxRequests
    /\ result.remaining = 0

\* C7: the window slides.  A checkLimit call made strictly later than
\* windowMs after the first (oldest) timestamp of the client's stored history
\* is admitted, whatever number of rejected calls came in between.
WindowSlides ==
    [][\A c \in ClientIds :
          (/\ result'.op = "checkLimit" /\ result'.clientId = c
           /\ c \in DOMAIN clients
           /\ clients[c].requests # <<>>
           /\ now' > clients[c].requests[1] + options.windowMs)
          => result'.allowed]_vars

\* a client was admitted, then rejected, and then admitted again by a call
\* made later than windowMs after its first admitted request
WindowSlidesWitness ==
    \E c \in ClientIds :
        /\ ValidConfig
        /\ Len(trace[c]) = 3
        /\ Admitted(c, 1) /\ ~Admitted(c, 2) /\ Admitted(c, 3)
        /\ trace[c][3].at > trace[c][1].at + options.windowMs
        /\ result = trace[c][3]

\* the record stored for client c, <<>> when there is none
RecordOf(store, c) == IF c \in DOMAIN store THEN <<store[c]>> ELSE <<>>

\* C8: isolation between clients.  checkLimit(A), getStatus(A) and
\* resetClient(A) leave the record (history and lastAccessed) of every other
\* client B as it was, and with it what checkLimit(B) and getStatus(B) return
\* at any time from now on.
ClientIsolation ==
    [][\A A \in ClientIds :
          (result'.op \in {"checkLimit", "getStatus", "resetClient"}
              /\ result'.clientId = A) =>
              \A B \in ClientIds \ {A} :
                  /\ RecordOf(clients', B) = RecordOf(clients, B)
                  /\ \A t \in Later :
                        /\ CheckLimitReturn(clients', B, t) = CheckLimitReturn(clients, B, t)
                        /\ GetStatusReturn(clients', B, t) = GetStatusReturn(clients, B, t)]_vars

\* one client was reset while another one holds a record with a history
ClientIsolationWitness ==
    \E A \in ClientIds, B \in ClientIds :
        /\ A # B
        /\ ValidConfig
        /\ result.op = "resetClient" /\ result.clientId = A
        /\ A \notin DOMAIN clients
        /\ B \in DOMAIN clients
        /\ clients[B].requests # <<>>

\* the value checkLimit returns to a client that was never seen
Fresh(r) ==
    /\ r.allowed
    /\ r.remaining = options.maxRequests - 1
    /\ r.resetAt = r.at + options.windowMs

\* C9: resetClient(id) deletes the record of id if there is one (and changes
\* nothing if there is none); the checkLimit(id) that follows it, now or at
\* any later time, returns what a never-seen client gets: allowed,
\* remaining = maxRequests - 1, resetAt = now + windowMs.
ResetClientFresh ==
    result.op = "resetClient" =>
        /\ result.clientId \notin DOMAIN clients
        /\ \A t \in Later : Fresh(CheckLimitReturn(clients, result.clientId, t))

\* C10: resetAll() empties the store in one step; afterwards the next
\* checkLimit of every client, also of one that was being rejected, is
\* admitted with remaining = maxRequests - 1.
ResetAllFresh ==
    result.op = "resetAll" =>
        /\ clients = <<>>
        /\ \A c \in ClientIds, t \in Later :
              /\ CheckLimitReturn(clients, c, t).allowed
              /\ CheckLimitReturn(clients, c, t).remaining = options.maxRequests - 1

\* C11: constructing the engine with maxRequests <= 0 or windowMs <= 0 fails,
\* so that every engine that exists, and every engine a checkLimit call has
\* run under, has maxRequests >= 1 and windowMs >= 1.
ConstructionFailsFast ==
    /\ ValidConfig
    /\ \A c \in ClientIds : trace[c] # <<>> => ValidConfig

\* C12: destroy() stops the sweep and clears the store, and is idempotent: a
\* further destroy() finds the timer already cleared and leaves the engine
\* as the first one left it (sweep stopped, store empty).
DestroyIdempotent ==
    result.op = "destroy" => ~cleanupInterval /\ clients = <<>>

\* destroy() was called on an engine whose timer an earlier destroy() had
\* cleared already
DestroyIdempotentWitness ==
    /\ result.op = "destroy"
    /\ ~result.timerCleared
    /\ ~cleanupInterval
    /\ clients = <<>>

\* C13: sweep lifecycle.  The sweep is running from construction until
\* destroy(), stopped after it; once stopped it never runs again: the callback
\* does not fire, so no record is evicted by it, and the engine never goes
\* back from stopped to running.
SweepLifecycle ==
    /\ [](result.op = "constructor" => cleanupInterval)
    /\ [](result.op = "destroy" => ~cleanupInterval)
    /\ [][(cleanupInterval /\ ~cleanupInterval') => result'.op = "destroy"]_vars
    /\ [][~cleanupInterval =>
            /\ ~cleanupInterval'
            /\ result'.op # "cleanupStaleRecords"
            /\ (\A c \in DOMAIN clients \ DOMAIN clients' :
                   result'.op \in {"resetClient", "resetAll", "destroy"})]_vars

\* after destroy() a record that the sweep would evict is still in the store
SweepLifecycleWitness ==
    /\ ValidConfig
    /\ ~cleanupInterval
    /\ Stale(clients, now) # {}

\* C14: getStatus(id) returns requestCount = the number of id's stored
\* timestamps that are > now - windowMs and remaining = max(0, maxRequests -
\* requestCount); for a client with no record it returns requestCount = 0,
\* remaining = maxRequests and resetAt = now + windowMs.
GetStatusValues ==
    result.op = "getStatus" =>
        LET c == result.clientId
        IN  IF c \notin DOMAIN clients
            THEN /\ result.requestCount = 0
                 /\ result.remaining = options.maxRequests
                 /\ result.resetAt = now + options.windowMs
            ELSE LET stored == clients[c].requests
                     n == Cardinality({i \in DOMAIN stored : stored[i] > now - options.windowMs})
                 IN  /\ result.requestCount = n
                     /\ result.remaining = (IF options.maxRequests - n > 0
                                            THEN options.maxRequests - n ELSE 0)

\* getStatus counted a record that holds an expired and a live timestamp
GetStatusValuesWitness ==
    /\ ValidConfig
    /\ result.op = "getStatus"
    /\ result.clientId \in DOMAIN clients
    /\ result.requestCount >= 1
    /\ Len(clients[result.clientId].requests) > result.requestCount

\* the store with an empty record put under key c
WithEmptyRecord(c) ==
    [k \in DOMAIN clients \cup {c} |->
        IF k = c THEN [requests |-> <<>>, lastAccessed |-> now] ELSE clients[k]]

\* C15: checkLimit, getStatus, resetClient and resetAll are total: for every
\* key, the empty string and unseen keys included, and in every reachable
\* state, also after destroy, each of them returns (the call has an outcome),
\* and a key without a record is treated as a key with zero usage.
OperationsTotal ==
    \A c \in ClientIds :
        /\ Logged < MaxCalls => ENABLED checkLimit(c)
        /\ ENABLED getStatus(c)
        /\ ENABLED resetClient(c)
        /\ ENABLED resetAll
        /\ c \notin DOMAIN clients =>
              /\ CheckLimitReturn(clients, c, now) = CheckLimitReturn(WithEmptyRecord(c), c, now)
              /\ GetStatusReturn(clients, c, now).requestCount = 0
              /\ ResetClientStore(clients, c) = clients

\* after destroy(), the first checkLimit of the empty key, which has no record
OperationsTotalWitness ==
    /\ ~cleanupInterval
    /\ result.op = "checkLimit"
    /\ result.clientId = ""
    /\ Len(trace[""]) = 1

\* the timestamps of client c that are inside the window at the current instant
Live(c) ==
    IF c \in DOMAIN clients
    THEN {clients[c].requests[i] : i \in {k \in DOMAIN clients[c].requests :
                                           clients[c].requests[k] > now - options.windowMs}}
    ELSE {}

\* C18: resetAt returned by checkLimit and by getStatus is the oldest timestamp
\* remaining in the client's trimmed history (after the append when admitted)
\* plus windowMs, and now + windowMs when that history is empty.
ResetAtAnchored ==
    result.op \in {"checkLimit", "getStatus"} =>
        LET live == Live(result.clientId)
        IN  result.resetAt =
                (IF live = {} THEN now ELSE CHOOSE t \in live : \A u \in live : t <= u)
                + options.windowMs

\* an admitted call of a client whose history holds an older request: resetAt
\* is anchored on the older one
ResetAtAnchoredWitness ==
    /\ ValidConfig
    /\ result.op = "checkLimit"
    /\ result.allowed
    /\ Len(clients[result.clientId].requests) = 2
    /\ clients[result.clientId].requests[1] < now
    /\ result.resetAt = clients[result.clientId].requests[1] + options.windowMs

\* C19: retryAfter is present in a checkLimit result if and only if allowed =
\* false; when present it equals ceil((resetAt - now) / 1000) and satisfies
\* 1 <= retryAfter <= ceil(windowMs / 1000).
RetryAfterRange ==
    result.op = "checkLimit" =>
        /\ (result.retryAfter # <<>>) <=> ~result.allowed
        /\ result.retryAfter # <<>> =>
              /\ result.retryAfter[1] = Ceil(result.resetAt - now, MsPerSecond)
              /\ result.retryAfter[1] >= 1
              /\ result.retryAfter[1] <= Ceil(options.windowMs, MsPerSecond)

\* C20: if checkLimit(id) is rejected at time t with resetAt = r then, with no
\* reset or destroy in between, every checkLimit(id) at a time t' with
\* t <= t' < r is rejected with the same resetAt r, and the first
\* checkLimit(id) at a time t' >= r is admitted.
ResetAtMeaning ==
    \A c \in ClientIds : \A i \in DOMAIN trace[c] : \A j \in DOMAIN trace[c] :
        (i < j /\ ~trace[c][i].allowed) =>
            /\ trace[c][j].at < trace[c][i].resetAt =>
                  /\ ~trace[c][j].allowed
                  /\ trace[c][j].resetAt = trace[c][i].resetAt
            /\ (/\ trace[c][j].at >= trace[c][i].resetAt
                /\ \A k \in (i + 1)..(j - 1) : trace[c][k].at < trace[c][i].resetAt)
               => trace[c][j].allowed

\* how many of the three endings the latest request had
Endings ==
    (IF exchange.sent # "none" THEN 1 ELSE 0) + exchange.next + exchange.nextError

\* the latest request was answered by checkLimit and nothing ran since
Rejected == exchange.checked /\ result.op = "checkLimit" /\ ~result.allowed
Passed == exchange.checked /\ result.op = "checkLimit" /\ result.allowed

KeyGeneratorThrowCaught ==
    [][(result'.op = "rateLimitMiddleware" /\ exchange'.threw = "keyGenerator") =>
          /\ exchange'.nextError = 1
          /\ exchange'.next = 0
          /\ exchange'.sent = "none"
          /\ ~exchange'.checked
          /\ clients' = clients
          /\ trace' = trace]_vars

\* keyGenerator threw on a request while the store held a record
KeyGeneratorThrowCaughtWitness ==
    /\ ValidConfig
    /\ result.op = "rateLimitMiddleware"
    /\ exchange.threw = "keyGenerator"
    /\ exchange.nextError = 1
    /\ clients # <<>>

\* C21: each run of the sweep at time now removes exactly the records whose
\* lastAccessed < now - 2 * windowMs and leaves every other record, with its
\* history and lastAccessed, unchanged.
SweepEvictsExactlyStale ==
    [][result'.op = "cleanupStaleRecords" =>
          /\ DOMAIN clients' =
                {k \in DOMAIN clients :
                    ~(clients[k].lastAccessed < now - (2 * options.windowMs))}
          /\ \A k \in DOMAIN clients' : clients'[k] = clients[k]]_vars

\* a sweep has evicted the record of one client and kept the record of another
SweepEvictsExactlyStaleWitness ==
    /\ ValidConfig
    /\ result.op = "cleanupStaleRecords"
    /\ \E c \in ClientIds : trace[c] # <<>> /\ c \notin DOMAIN clients
    /\ \E d \in ClientIds : d \in DOMAIN clients

\* C22 (as stated): the sweep can evict a record mid-window: for a record
\* that holds a timestamp inside the window there is an instant at which a
\* sweep finds it stale while one of its timestamps is still inside the window.
MidWindowEviction ==
    \A c \in DOMAIN clients :
        (ValidConfig /\ cleanupInterval /\ Live(c) # {}) =>
            \E t \in now..(now + (2 * options.windowMs) + 1) :
                /\ c \in Stale(clients, t)
                /\ \E i \in DOMAIN clients[c].requests :
                      clients[c].requests[i] > t - options.windowMs

\* C22 (amended): the sweep never evicts a record mid-window: a record it
\* removes holds no timestamp inside the window, and removing it changes no
\* later checkLimit result, so no quota is reset early.
NoMidWindowEviction ==
    [][\A c \in DOMAIN clients \ DOMAIN clients' :
          result'.op = "cleanupStaleRecords" =>
              /\ Live(c) = {}
              /\ \A t \in Later :
                    CheckLimitReturn(clients', c, t) = CheckLimitReturn(clients, c, t)]_vars

\* a sweep has evicted the record of a client whose latest request was admitted
NoMidWindowEvictionWitness ==
    /\ ValidConfig
    /\ result.op = "cleanupStaleRecords"
    /\ \E c \in ClientIds :
          /\ c \notin DOMAIN clients
          /\ trace[c] # <<>>
          /\ trace[c][Len(trace[c])].allowed

\* C23 (as stated): a record is created on the first checkLimit and also on
\* the first getStatus for an unseen key: after getStatus(id) for an id with
\* no record the store contains a record for id, with an empty history.
GetStatusCreatesRecord ==
    [][\A c \in ClientIds \ DOMAIN clients :
          (result'.op \in {"checkLimit", "getStatus"} /\ result'.clientId = c) =>
              /\ c \in DOMAIN clients'
              /\ result'.op = "getStatus" => clients'[c].requests = <<>>]_vars

\* C23 (amended): a record is created by the first checkLimit for an unseen
\* key only, holding the request when it is admitted; getStatus for a key
\* with no record leaves the store as it is.
RecordCreatedByCheckLimitOnly ==
    [][\A c \in ClientIds \ DOMAIN clients :
          /\ (result'.op = "checkLimit" /\ result'.clientId = c) =>
                /\ c \in DOMAIN clients'
                /\ clients'[c].lastAccessed = now
                /\ clients'[c].requests = (IF result'.allowed THEN <<now>> ELSE <<>>)
          /\ (result'.op = "getStatus" /\ result'.clientId = c) =>
                clients' = clients]_vars

\* getStatus has returned for a key that has no record, next to a key that has
RecordCreatedByCheckLimitOnlyWitness ==
    /\ result.op = "getStatus"
    /\ result.clientId \notin DOMAIN clients
    /\ clients # <<>>

RECURSIVE SeqStore(_, _)
SeqStore(c, n) ==
    IF n = 0 THEN <<>>
    ELSE CheckLimitStore(SeqStore(c, n - 1), c, trace[c][n].at)

\* what the n-th of these calls returns in that engine
SeqReturn(c, n) == CheckLimitReturn(SeqStore(c, n - 1), c, trace[c][n].at)

\* the in-window part of client c's history in a store
LiveHistory(store, c) ==
    Trim(IF c \in DOMAIN store THEN store[c].requests ELSE <<>>, WindowStart(now))

\* C25: per-key serializability.  However the checkLimit calls of a key are
\* interleaved with calls for other keys, status queries and sweep callbacks,
\* each running to completion, every admission decision is the one the calls
\* of that key give when run one after another in their completion order, and
\* no timestamp that is still inside the window has been lost from the store.
PerKeySerializable ==
    \A c \in ClientIds :
        /\ \A n \in DOMAIN trace[c] : trace[c][n].allowed = SeqReturn(c, n).allowed
        /\ LiveHistory(clients, c) = LiveHistory(SeqStore(c, Len(trace[c])), c)

\* two calls of one key with a call of the other key strictly between them,
\* followed by a sweep
PerKeySerializableWitness ==
    /\ ValidConfig
    /\ result.op = "cleanupStaleRecords"
    /\ \E c \in ClientIds : \E d \in ClientIds \ {c} :
          /\ Len(trace[c]) = 2
          /\ Len(trace[d]) = 1
          /\ trace[c][1].at < trace[d][1].at
          /\ trace[d][1].at < trace[c][2].at

\* C26: each record's history is non-decreasing in insertion order and every
\* timestamp in it is <= the record's lastAccessed.
HistoryOrdered ==
    \A c \in DOMAIN clients :
        LET requests == clients[c].requests
        IN  /\ \A i \in DOMAIN requests : \A j \in DOMAIN requests :
                  i < j => requests[i] <= requests[j]
            /\ \A i \in DOMAIN requests : requests[i] <= clients[c].lastAccessed

\* a record with two requests made at different times
HistoryOrderedWitness ==
    /\ ValidConfig
    /\ \E c \in DOMAIN clients :
          /\ Len(clients[c].requests) = 2
          /\ clients[c].requests[1] < clients[c].requests[2]

\* C27: for every checkLimit(id) call with maxRequests >= 1, admitted or
\* rejected, the returned remaining is maxRequests minus the length of id's
\* stored history right after the call.
RemainingMatchesHistory ==
    (result.op = "checkLimit" /\ options.maxRequests >= 1) =>
        result.remaining =
            options.maxRequests - Len(clients[result.clientId].requests)

\* a rejected call of a client whose stored history is full
RemainingMatchesHistoryWitness ==
    /\ ValidConfig
    /\ result.op = "checkLimit"
    /\ ~result.allowed
    /\ Len(clients[result.clientId].requests) = options.maxRequests

\* C28: getStatus and checkLimit agree: checkLimit(id) is admitted if and only
\* if a getStatus(id) made just before it at the same time reports
\* remaining > 0, and a getStatus(id) made just after a checkLimit(id) at the
\* same time reports the remaining and the resetAt that checkLimit returned.
StatusAgreesWithCheck ==
    [][\A c \in ClientIds :
          /\ (/\ result.op = "getStatus" /\ result.clientId = c
              /\ result'.op = "checkLimit" /\ result'.clientId = c)
             => (result'.allowed <=> result.remaining > 0)
          /\ (/\ result.op = "checkLimit" /\ result.clientId = c
              /\ result'.op = "getStatus" /\ result'.clientId = c)
             => /\ result'.remaining = result.remaining
                /\ result'.resetAt = result.resetAt]_vars

\* C29: the sweep is unobservable: every result of checkLimit and getStatus
\* is the one returned by an engine that ran the same calls and whose sweep
\* never fired.
SweepUnobservable ==
    /\ \A c \in ClientIds : \A n \in DOMAIN trace[c] : trace[c][n] = SeqReturn(c, n)
    /\ result.op = "getStatus" =>
          result = GetStatusReturn(SeqStore(result.clientId, Len(trace[result.clientId])),
                                   result.clientId, now)

\* C30: destroy() does not disable the engine: after it, checkLimit creates
\* records again and returns what a fresh engine returns for the same calls,
\* and every record created since stays in the store, exactly as written,
\* until a resetClient, resetAll or another destroy.
DestroyKeepsEngineUsable ==
    ~cleanupInterval =>
        \A c \in ClientIds :
            trace[c] # <<>> =>
                /\ c \in DOMAIN clients
                /\ clients[c] = SeqStore(c, Len(trace[c]))[c]
                /\ \A n \in DOMAIN trace[c] : trace[c][n] = SeqReturn(c, n)

\* after destroy() a client was admitted and then rejected, and its record is
\* still stored at a time when a sweep would have found it stale
DestroyKeepsEngineUsableWitness ==
    /\ ValidConfig
    /\ ~cleanupInterval
    /\ \E c \in Stale(clients, now) :
          /\ Len(trace[c]) >= 2
          /\ trace[c][1].allowed
          /\ ~trace[c][Len(trace[c])].allowed

\* C31: after RateLimiterFactory.destroy(), destroy() has been called on every
\* service instance ever produced by create(), create calls that reuse a name
\* included, so no created service is left with a running sweep timer.
FactoryDestroysAll ==
    returned.op = "destroy" => \A i \in DOMAIN services : ~services[i]

\* C32: the counter-based RateLimiter is a sliding-window limiter: for every
\* identifier and every time t, the number of isAllowed calls that returned
\* true with call time in (t - windowMs, t] is at most maxRequests.
CounterSlidingWindowBound ==
    \A identifier \in ClientIds : \A t \in 1..MaxTime :
        Cardinality({i \in DOMAIN allowedLog[identifier] :
                        /\ allowedLog[identifier][i] > t - limiter.windowMs
                        /\ allowedLog[identifier][i] <= t})
            <= limiter.maxRequests

====
